---------------------------- MODULE Spec2Model ----------------------------
(***************************************************************************)
(* Model of dptrp1manager/tree.py: the node classes DPNode, DPFolderNode   *)
(* and DPDocumentNode and the RemoteTree engine (rebuild_tree,             *)
(* _create_path, _create_update_node, get_node_by_path).                   *)
(*                                                                         *)
(* Representation.                                                         *)
(*  - A Python str is a sequence of symbols.  The symbol "/" is the path   *)
(*    separator; every other symbol stands for a piece of text without a   *)
(*    "/" in it ("Document" is one symbol).  No symbol spells "." or       *)
(*    "None", so the resolver's "." / ".." steps and str(None) never match *)
(*    a segment.                                                           *)
(*  - A Python value is a tagged record: None, Str(s), PyInt(n),           *)
(*    PyBool(b), DateTime(y, mo, d, h, mi, s).                             *)
(*  - A dict (one element of jsondata) is a record whose domain is the set *)
(*    of keys present.                                                     *)
(*  - An object is a record holding its class, its anytree parent (an      *)
(*    index into the arena `nodes`, 0 for None) and the attributes         *)
(*    assigned so far; an attribute that __init__ never reached is not in  *)
(*    the record's domain.                                                 *)
(***************************************************************************)
EXTENDS Integers, Sequences, FiniteSets, TLC

VARIABLES
    nodes,      \* the node objects constructed since the last rebuild_tree began, in construction order
    tree,       \* RemoteTree._tree: index of the root node in `nodes`, 0 for None
    resolver,   \* RemoteTree._resolver: None, or the Resolver object with its pathattr
    pc,         \* position in rebuild_tree: "idle" (no call running), "for", "create_path", "create_update_node"
    jsondata,   \* the elements of the argument that the for loop has taken so far
    outcome,    \* how the last rebuild_tree call ended: "none", "returned", or the exception raised
    calls,      \* number of rebuild_tree calls begun
    again,      \* the caller passes the previous collection again: that call's data, outcome and final tree
    result      \* what the last get_node_by_path call gave its caller

vars == <<nodes, tree, resolver, pc, jsondata, outcome, calls, again, result>>

(***************************************************************************)
(* Bounds of the model.                                                    *)
(***************************************************************************)
MaxRecords == 3

MaxRebuilds == 2

(***************************************************************************)
(* Python values.                                                          *)
(***************************************************************************)
None == [t |-> "None"]

Str(s) == [t |-> "str", v |-> s]

PyInt(n) == [t |-> "int", v |-> n]

PyBool(b) == [t |-> "bool", v |-> b]

DateTime(y, mo, d, h, mi, s) == [t |-> "datetime", v |-> <<y, mo, d, h, mi, s>>]

\* The result of a call: the exception it raised ("" for none) and its value.
Ok(v) == [exc |-> "", val |-> v]

Raise(e) == [exc |-> e, val |-> None]

\* bool(x) for None, a bool and a str.
Bool(x) ==
    CASE x.t = "None" -> FALSE
      [] x.t = "bool" -> x.v
      [] x.t = "str"  -> Len(x.v) > 0
      [] OTHER        -> TRUE

(***************************************************************************)
(* str methods: s.split(sep), s.rsplit(sep, 1)[0], "{}/{}".format(a, b),   *)
(* "/{}".format(a).                                                        *)
(***************************************************************************)
RECURSIVE SplitFrom(_, _, _)
\* The split of s at sep, given the current field `cur` collected so far.
SplitFrom(s, sep, cur) ==
    IF s = <<>> THEN <<cur>>
    ELSE IF Head(s) = sep THEN <<cur>> \o SplitFrom(Tail(s), sep, <<>>)
    ELSE SplitFrom(Tail(s), sep, Append(cur, Head(s)))

Split(s, sep) == SplitFrom(s, sep, <<>>)

\* s.rsplit(sep, 1)[0]: the text before the last sep, or s when it has none.
RSplitFirst(s, sep) ==
    LET at == {k \in 1..Len(s) : s[k] = sep}
    IN  IF at = {} THEN s
        ELSE LET last == CHOOSE k \in at : \A j \in at : j <= k
             IN  SubSeq(s, 1, last - 1)

FormatJoin(a, b) == a \o <<"/">> \o b

FormatRooted(a) == <<"/">> \o a

\* splpath[1:-1]
Middle(parts) == SubSeq(parts, 2, Len(parts) - 1)

(***************************************************************************)
(* int(x) of a str: an optional sign and decimal digits; ValueError        *)
(* otherwise.                                                              *)
(***************************************************************************)
Digits == {"0", "1", "2", "3", "4", "5", "6", "7", "8", "9"}

DigitValue(c) ==
    CASE c = "0" -> 0 [] c = "1" -> 1 [] c = "2" -> 2 [] c = "3" -> 3 [] c = "4" -> 4
      [] c = "5" -> 5 [] c = "6" -> 6 [] c = "7" -> 7 [] c = "8" -> 8 [] c = "9" -> 9

RECURSIVE DecimalValue(_, _)
DecimalValue(s, acc) ==
    IF s = <<>> THEN acc ELSE DecimalValue(Tail(s), 10 * acc + DigitValue(Head(s)))

IntOf(x) ==
    LET signed == Len(x.v) > 0 /\ Head(x.v) \in {"+", "-"}
        body   == IF signed THEN Tail(x.v) ELSE x.v
        value  == DecimalValue(body, 0)
    IN  IF body = <<>> \/ \E k \in 1..Len(body) : body[k] \notin Digits
        THEN Raise("ValueError")
        ELSE Ok(PyInt(IF signed /\ Head(x.v) = "-" THEN 0 - value ELSE value))

(***************************************************************************)
(* datetime.strptime(s, "%Y-%m-%dT%H:%M:%SZ").  A date string is the       *)
(* sequence of its fields and literals: each numeric field is one symbol   *)
(* of decimal digits, given here as a sequence of digit symbols.           *)
(***************************************************************************)
IsNumber(f, minlen, maxlen) ==
    /\ f \in Seq(Digits)
    /\ Len(f) >= minlen
    /\ Len(f) <= maxlen

DaysInMonth(y, mo) ==
    IF mo \in {4, 6, 9, 11} THEN 30
    ELSE IF mo = 2
         THEN (IF (y % 4 = 0 /\ y % 100 # 0) \/ y % 400 = 0 THEN 29 ELSE 28)
         ELSE 31

StrpTime(s) ==
    LET shape ==
            /\ Len(s) = 12
            /\ s[2] = <<"-">> /\ s[4] = <<"-">> /\ s[6] = <<"T">>
            /\ s[8] = <<":">> /\ s[10] = <<":">> /\ s[12] = <<"Z">>
            /\ IsNumber(s[1], 4, 4)
            /\ \A k \in {3, 5, 7, 9, 11} : IsNumber(s[k], 1, 2)
        y  == DecimalValue(s[1], 0)
        mo == DecimalValue(s[3], 0)
        d  == DecimalValue(s[5], 0)
        h  == DecimalValue(s[7], 0)
        mi == DecimalValue(s[9], 0)
        se == DecimalValue(s[11], 0)
    IN  IF ~shape THEN Raise("ValueError")
        ELSE IF /\ y >= 1
                /\ mo \in 1..12
                /\ d >= 1 /\ d <= DaysInMonth(y, mo)
                /\ h <= 23 /\ mi <= 59 /\ se <= 59
             THEN Ok(DateTime(y, mo, d, h, mi, se))
             ELSE Raise("ValueError")

\* DPNode.todatetime
todatetime(datestring) ==
    IF datestring # None THEN StrpTime(datestring.v) ELSE Ok(None)


(***************************************************************************)
(* Objects and the anytree parent/children relation.                       *)
(***************************************************************************)
\* obj.attr = value
SetAttr(obj, attr, value) == (attr :> value) @@ obj

\* getattr(obj, attr, None), as anytree's resolver reads the path attribute.
GetAttr(obj, attr) == IF attr \in DOMAIN obj THEN obj[attr] ELSE None

\* node.children: the nodes whose parent is k.  A parent is assigned once, at
\* construction, so the children stand in construction order.
Children(ns, k) == {c \in 1..Len(ns) : ns[c].parent = k}

RECURSIVE Root(_, _)
\* node.root
Root(ns, k) == IF ns[k].parent = 0 THEN k ELSE Root(ns, ns[k].parent)

\* The result of a call that gives a node: its index, 0 for None.
Found(k) == [exc |-> "", val |-> k]

Failed(e) == [exc |-> e, val |-> 0]

\* The result of a constructor or of an in-place update: the exception raised
\* ("" for none) and the object as the call left it.
Built(e, obj) == [exc |-> e, obj |-> obj]

(***************************************************************************)
(* The node classes.                                                       *)
(***************************************************************************)
\* DPNode.__init__
DPNodeInit(class, parent, entry_path, entry_name, entry_type, entry_id, created_date, is_new) ==
    LET o1 == [class      |-> class,
               parent     |-> parent,
               entry_path |-> entry_path,
               entry_name |-> entry_name,
               entry_type |-> entry_type,
               entry_id   |-> entry_id]
        d  == todatetime(created_date)
        o2 == SetAttr(o1, "created_date", d.val)
        o3 == SetAttr(o2, "is_new", IF is_new # None THEN PyBool(Bool(is_new)) ELSE None)
    IN  IF d.exc # "" THEN Built(d.exc, o1) ELSE Built("", o3)

\* DPFolderNode.__init__
DPFolderNodeInit(parent, entry_path, entry_name, entry_type, entry_id, created_date, is_new, document_source, parent_folder_id) ==
    LET b  == DPNodeInit("DPFolderNode", parent, entry_path, entry_name, entry_type,
                         entry_id, created_date, is_new)
        o1 == SetAttr(b.obj, "document_source", document_source)
        o2 == SetAttr(o1, "parent_folder_id", parent_folder_id)
    IN  IF b.exc # "" THEN b ELSE Built("", o2)

\* The conversion as it would be if None were taken for 0.
IntAttrDefaultZero(b, attr, value) ==
    LET n == IF value # None THEN IntOf(value) ELSE Ok(PyInt(0))
    IN  IF b.exc # "" THEN b
        ELSE IF n.exc # "" THEN Built(n.exc, b.obj)
        ELSE Built("", SetAttr(b.obj, attr, n.val))

\* self.<attr> = int(value) if value is not None else None
IntAttr(b, attr, value) ==
    LET n == IF value # None THEN IntOf(value) ELSE Ok(None)
    IN  IF b.exc # "" THEN b
        ELSE IF n.exc # "" THEN Built(n.exc, b.obj)
        ELSE Built("", SetAttr(b.obj, attr, n.val))

\* DPDocumentNode.__init__
DPDocumentNodeInit(parent, entry_path, entry_name, entry_type, entry_id, created_date, is_new, author, current_page, document_type, file_revision, file_size, mime_type, modified_date, title, total_page) ==
    LET b  == DPNodeInit("DPDocumentNode", parent, entry_path, entry_name, entry_type,
                         entry_id, created_date, is_new)
        o1 == SetAttr(b.obj, "author", author)
        o2 == SetAttr(o1, "document_type", document_type)
        o3 == SetAttr(o2, "file_revision", file_revision)
        o4 == SetAttr(o3, "mime_type", mime_type)
        m  == todatetime(modified_date)
        o5 == SetAttr(o4, "modified_date", m.val)
        o6 == SetAttr(o5, "title", title)
    IN  IF b.exc # "" THEN b
        ELSE IF m.exc # "" THEN Built(m.exc, o4)
        ELSE IntAttr(IntAttr(IntAttr(Built("", o6), "current_page", current_page),
                             "file_size", file_size),
                     "total_page", total_page)

\* RemoteTree._create_tree_root
CreateTreeRoot ==
    DPNodeInit("DPNode", 0,
               Str(<<"Document">>),
               Str(<<"Document">>),
               Str(<<"folder">>),
               Str(<<"root">>),
               Str(<< <<"2","0","1","7">>, <<"-">>, <<"1","2">>, <<"-">>, <<"1","2">>, <<"T">>,
                      <<"1","3">>, <<":">>, <<"5","3">>, <<":">>, <<"5","0">>, <<"Z">> >>),
               PyBool(FALSE)).obj

(***************************************************************************)
(* anytree.resolver.Resolver(pathattr).get(node, path), as                 *)
(* get_node_by_path calls it: the path starts with the separator, so the   *)
(* walk starts at node.root, whose name must be the first segment          *)
(* (ResolverError otherwise); then one child per segment, the first child  *)
(* whose pathattr is the segment (ChildResolverError when there is none);  *)
(* an empty segment stays at the node.                                     *)
(***************************************************************************)
RECURSIVE ResolverWalk(_, _, _, _)
ResolverWalk(ns, pathattr, node, parts) ==
    IF parts = <<>> THEN Found(node)
    ELSE IF Head(parts) = <<>> THEN ResolverWalk(ns, pathattr, node, Tail(parts))
    ELSE LET hits == {c \in Children(ns, node) : GetAttr(ns[c], pathattr) = Str(Head(parts))}
         IN  IF hits = {} THEN Failed("ChildResolverError")
             ELSE ResolverWalk(ns, pathattr, CHOOSE c \in hits : \A h \in hits : c <= h,
                               Tail(parts))

ResolverGet(ns, pathattr, node, path) ==
    LET parts == Split(path, "/")
    IN  IF path # <<>> /\ Head(path) = "/"
        THEN LET root  == Root(ns, node)
                 parts1 == Tail(parts)
             IN  IF parts1[1] = <<>> THEN Failed("ResolverError")
                 ELSE IF GetAttr(ns[root], pathattr) # Str(parts1[1]) THEN Failed("ResolverError")
                 ELSE ResolverWalk(ns, pathattr, root, Tail(parts1))
        ELSE ResolverWalk(ns, pathattr, node, parts)

(***************************************************************************)
(* RemoteTree.  Its methods are operators of the fields they read: the     *)
(* arena ns, self._tree (tr) and self._resolver (rs).                      *)
(***************************************************************************)
\* get_node_by_path as it would be if it caught every ResolverError.
get_node_by_path_catching_resolver_error(ns, tr, rs, path) ==
    IF rs = None \/ tr = 0 THEN Failed("AttributeError")
    ELSE LET r == ResolverGet(ns, rs.pathattr, Root(ns, tr), FormatRooted(path))
         IN  IF r.exc \in {"ChildResolverError", "ResolverError"} THEN Found(0) ELSE r

\* RemoteTree.get_node_by_path: only ChildResolverError is caught.
get_node_by_path(ns, tr, rs, path) ==
    IF rs = None \/ tr = 0 THEN Failed("AttributeError")
    ELSE LET r == ResolverGet(ns, rs.pathattr, Root(ns, tr), FormatRooted(path))
         IN  IF r.exc = "ChildResolverError" THEN Found(0) ELSE r

\* The result of a method that constructs or updates nodes: the exception it
\* raised ("" for none) and the arena as it left it.
Done(e, ns) == [exc |-> e, nodes |-> ns]

RECURSIVE CreatePathLoop(_, _, _, _, _)
\* The loop of _create_path over the segments ds = splpath[1:-1].
CreatePathLoop(ns, tr, rs, lastpath, ds) ==
    IF ds = <<>> THEN Done("", ns)
    ELSE LET curpath == FormatJoin(lastpath, Head(ds))
             here    == get_node_by_path(ns, tr, rs, curpath)
             parent  == get_node_by_path(ns, tr, rs, lastpath)
             made    == DPFolderNodeInit(parent.val, Str(curpath), None, None, None, None,
                                         None, None, None)
         IN  IF here.exc # "" THEN Done(here.exc, ns)
             ELSE IF here.val # 0 THEN CreatePathLoop(ns, tr, rs, curpath, Tail(ds))
             ELSE IF parent.exc # "" THEN Done(parent.exc, ns)
             ELSE CreatePathLoop(Append(ns, made.obj), tr, rs, curpath, Tail(ds))

\* RemoteTree._create_path
create_path(ns, tr, rs, path) ==
    IF path.t # "str" THEN Done("AttributeError", ns)
    ELSE LET splpath == Split(path.v, "/")
         IN  CreatePathLoop(ns, tr, rs, splpath[1], Middle(splpath))

\* data[key] raises KeyError for some key of keys.
Missing(data, keys) == \E k \in keys : k \notin DOMAIN data

RECURSIVE UpdateAttrs(_, _, _)
\* The assignments of the in-place update, one attribute after the other:
\* node.<attr> = data[<attr>], with data.get for document_source, todatetime
\* for created_date and bool for is_new.
UpdateAttrs(obj, data, attrs) ==
    IF attrs = <<>> THEN Built("", obj)
    ELSE LET a    == Head(attrs)
             raw  == IF a \in DOMAIN data THEN data[a] ELSE None
             conv == IF a = "created_date" THEN todatetime(raw)
                     ELSE IF a = "is_new" THEN Ok(PyBool(Bool(raw)))
                     ELSE Ok(raw)
         IN  IF a # "document_source" /\ a \notin DOMAIN data THEN Built("KeyError", obj)
             ELSE IF conv.exc # "" THEN Built(conv.exc, obj)
             ELSE UpdateAttrs(SetAttr(obj, a, conv.val), data, Tail(attrs))

FolderKeys ==
    {"entry_path", "entry_name", "entry_type", "entry_id", "created_date", "is_new",
     "parent_folder_id"}

DocumentKeys ==
    {"entry_path", "entry_name", "entry_type", "entry_id", "created_date", "is_new",
     "author", "current_page", "document_type", "file_revision", "file_size",
     "mime_type", "modified_date", "title", "total_page"}

UpdatedAttrs ==
    <<"entry_name", "entry_type", "entry_id", "created_date", "is_new",
      "document_source", "parent_folder_id">>

\* The folder branch as it would be if the in-place update wrote to the node
\* of the parent path.
CreateUpdateFolderOnParent(ns, tr, rs, data, parent) ==
    LET node    == get_node_by_path(ns, tr, rs, data.entry_path.v)
        made    == DPFolderNodeInit(parent, data.entry_path, data.entry_name,
                                    data.entry_type, data.entry_id, data.created_date,
                                    data.is_new, GetAttr(data, "document_source"),
                                    data.parent_folder_id)
        target  == IF parent = 0 THEN node.val ELSE parent
        updated == UpdateAttrs(ns[target], data, UpdatedAttrs)
    IN  IF node.exc # "" THEN Done(node.exc, ns)
        ELSE IF node.val = 0
             THEN (IF Missing(data, FolderKeys) THEN Done("KeyError", ns)
                   ELSE Done(made.exc, Append(ns, made.obj)))
             ELSE Done(updated.exc, [ns EXCEPT ![target] = updated.obj])

\* The folder branch of _create_update_node.
CreateUpdateFolder(ns, tr, rs, data, parent) ==
    LET node    == get_node_by_path(ns, tr, rs, data.entry_path.v)
        made    == DPFolderNodeInit(parent, data.entry_path, data.entry_name,
                                    data.entry_type, data.entry_id, data.created_date,
                                    data.is_new, GetAttr(data, "document_source"),
                                    data.parent_folder_id)
        updated == UpdateAttrs(ns[node.val], data, UpdatedAttrs)
    IN  IF node.exc # "" THEN Done(node.exc, ns)
        ELSE IF node.val = 0
             THEN (IF Missing(data, FolderKeys) THEN Done("KeyError", ns)
                   ELSE Done(made.exc, Append(ns, made.obj)))
             ELSE Done(updated.exc, [ns EXCEPT ![node.val] = updated.obj])

\* The document branch of _create_update_node.
CreateDocument(ns, data, parent) ==
    LET made == DPDocumentNodeInit(parent, data.entry_path, data.entry_name,
                                   data.entry_type, data.entry_id, data.created_date,
                                   data.is_new, data.author, data.current_page,
                                   data.document_type, data.file_revision, data.file_size,
                                   data.mime_type, data.modified_date, data.title,
                                   data.total_page)
    IN  IF Missing(data, DocumentKeys) THEN Done("KeyError", ns)
        ELSE Done(made.exc, Append(ns, made.obj))

\* _create_update_node as it would be if every entry_type but "document" were
\* handled as a folder.
create_update_node_else_folder(ns, tr, rs, data) ==
    IF Missing(data, {"entry_path"}) THEN Done("KeyError", ns)
    ELSE IF data.entry_path.t # "str" THEN Done("AttributeError", ns)
    ELSE LET parentpath == RSplitFirst(data.entry_path.v, "/")
             parent     == get_node_by_path(ns, tr, rs, parentpath)
         IN  IF parent.exc # "" THEN Done(parent.exc, ns)
             ELSE IF Missing(data, {"entry_type"}) THEN Done("KeyError", ns)
             ELSE IF data.entry_type = Str(<<"document">>)
                  THEN CreateDocument(ns, data, parent.val)
             ELSE CreateUpdateFolder(ns, tr, rs, data, parent.val)

\* RemoteTree._create_update_node
create_update_node(ns, tr, rs, data) ==
    IF Missing(data, {"entry_path"}) THEN Done("KeyError", ns)
    ELSE IF data.entry_path.t # "str" THEN Done("AttributeError", ns)
    ELSE LET parentpath == RSplitFirst(data.entry_path.v, "/")
             parent     == get_node_by_path(ns, tr, rs, parentpath)
         IN  IF parent.exc # "" THEN Done(parent.exc, ns)
             ELSE IF Missing(data, {"entry_type"}) THEN Done("KeyError", ns)
             ELSE IF data.entry_type = Str(<<"folder">>)
                  THEN CreateUpdateFolder(ns, tr, rs, data, parent.val)
             ELSE IF data.entry_type = Str(<<"document">>)
                  THEN CreateDocument(ns, data, parent.val)
             ELSE Done("", ns)

(***************************************************************************)
(* The inputs: the dicts a collection is drawn from and the paths the      *)
(* caller looks up.                                                        *)
(***************************************************************************)
Date(y, mo, d, h, mi, s) ==
    Str(<<y, <<"-">>, mo, <<"-">>, d, <<"T">>, h, <<":">>, mi, <<":">>, s, <<"Z">>>>)

\* "2017-12-14T13:55:00Z"
GoodDate == Date(<<"2","0","1","7">>, <<"1","2">>, <<"1","4">>, <<"1","3">>, <<"5","5">>, <<"0","0">>)

\* "2017-12-14": not of the format
BadDate == Str(<< <<"2","0","1","7">>, <<"-">>, <<"1","2">>, <<"-">>, <<"1","4">> >>)

PathDocument == <<"Document">>

PathA == <<"Document", "/", "A">>

PathAB == <<"Document", "/", "A", "/", "B">>

PathAd == <<"Document", "/", "A", "/", "d">>

PathABd == <<"Document", "/", "A", "/", "B", "/", "d">>

PathXAd == <<"X", "/", "A", "/", "d">>

\* A folder dict, as the device reports it.
FolderRecord(path, name, id, created, parentid) ==
    [entry_path       |-> Str(path),
     entry_name       |-> Str(<<name>>),
     entry_type       |-> Str(<<"folder">>),
     entry_id         |-> Str(<<id>>),
     created_date     |-> created,
     is_new           |-> Str(<<"false">>),
     document_source  |-> Str(<<"src">>),
     parent_folder_id |-> Str(<<parentid>>)]

\* A document dict, as the device reports it.
DocumentRecord(path, name, id, created, page, parentid) ==
    [entry_path       |-> Str(path),
     entry_name       |-> Str(<<name>>),
     entry_type       |-> Str(<<"document">>),
     entry_id         |-> Str(<<id>>),
     created_date     |-> created,
     is_new           |-> Str(<<"true">>),
     author           |-> Str(<<"lsr">>),
     current_page     |-> page,
     document_type    |-> Str(<<"normal">>),
     file_revision    |-> Str(<<"05873ef2024a.1.0">>),
     file_size        |-> Str(<<"1","9","0","9">>),
     mime_type        |-> Str(<<"application", "/", "pdf">>),
     modified_date    |-> GoodDate,
     parent_folder_id |-> Str(<<parentid>>),
     title            |-> None,
     total_page       |-> Str(<<"4","3","6">>)]

FolderA == FolderRecord(PathA, "A", "fA", GoodDate, "root")

FolderAB == FolderRecord(PathAB, "B", "fB", GoodDate, "fA")

DocumentABd == DocumentRecord(PathABd, "d", "d1", GoodDate, Str(<<"1">>), "fB")

DocumentAd == DocumentRecord(PathAd, "d", "d2", None, None, "fA")

DocumentAdBadDate == DocumentRecord(PathAd, "d", "d3", BadDate, Str(<<"1">>), "fA")

DocumentAdBadPage == DocumentRecord(PathAd, "d", "d4", GoodDate, Str(<<"1",".","5">>), "fA")

FolderABadDate == FolderRecord(PathA, "A", "fA2", BadDate, "root")

FolderXAd == FolderRecord(PathXAd, "d", "fX", GoodDate, "fA")

Records ==
    {FolderA, FolderAB, DocumentABd, DocumentAd, DocumentAdBadDate, DocumentAdBadPage,
     FolderABadDate, FolderXAd}

LookupPaths ==
    {PathDocument, PathA, PathAB, PathAd, PathABd, PathXAd,
     <<>>, <<"X">>, <<"Document", "/", "Z">>, <<"Document", "/", "A", "/", "Z", "/", "d">>}

(***************************************************************************)
(* What a caller can observe of a tree: for every node attached under the  *)
(* root, its class and attributes, with the parent given by its path.      *)
(***************************************************************************)
InTree(ns, tr, k) == tr # 0 /\ Root(ns, k) = tr

NodeView(ns, k) ==
    SetAttr(ns[k], "parent",
            IF ns[k].parent = 0 THEN None ELSE GetAttr(ns[ns[k].parent], "entry_path"))

\* The bag of the views of the nodes of the tree: how many nodes show each view.
TreeView(ns, tr) ==
    LET attached == {j \in 1..Len(ns) : InTree(ns, tr, j)}
        views    == {NodeView(ns, k) : k \in attached}
    IN  [v \in views |-> Cardinality({k \in attached : NodeView(ns, k) = v})]

NoPrevious == [data |-> <<>>, outcome |-> "none", view |-> <<>>, repeated |-> FALSE]

NoResult == [path |-> <<>>, exc |-> "none", val |-> 0]

(***************************************************************************)
(* The state machine.                                                      *)
(***************************************************************************)
\* RemoteTree.__init__
Init ==
    /\ nodes = <<>>
    /\ tree = 0
    /\ resolver = None
    /\ pc = "idle"
    /\ jsondata = <<>>
    /\ outcome = "none"
    /\ calls = 0
    /\ again = NoPrevious
    /\ result = NoResult

\* rebuild_tree as it would be if it made a root only when there is no tree yet:
\* the nodes of the previous rebuild stay.
rebuild_tree_begin_keeping_tree(ns, tr) ==
    [nodes    |-> IF tr = 0 THEN <<CreateTreeRoot>> ELSE ns,
     tree     |-> 1,
     resolver |-> [t |-> "Resolver", pathattr |-> "entry_name"]]

\* The first two statements of rebuild_tree: a fresh root, whatever tree there
\* was, and a resolver on entry_name.
rebuild_tree_begin(ns, tr) ==
    [nodes    |-> <<CreateTreeRoot>>,
     tree     |-> 1,
     resolver |-> [t |-> "Resolver", pathattr |-> "entry_name"]]

\* rebuild_tree(jsondata) is called and runs up to its loop.  With `repeat` the
\* caller passes the collection of the previous call once more.
RebuildTree(repeat) ==
    /\ pc = "idle"
    /\ calls < MaxRebuilds
    /\ repeat => calls > 0
    /\ nodes' = rebuild_tree_begin(nodes, tree).nodes
    /\ tree' = rebuild_tree_begin(nodes, tree).tree
    /\ resolver' = rebuild_tree_begin(nodes, tree).resolver
    /\ pc' = "for"
    /\ jsondata' = <<>>
    /\ outcome' = "none"
    /\ calls' = calls + 1
    /\ again' = IF repeat
                THEN [data |-> jsondata, outcome |-> outcome,
                      view |-> TreeView(nodes, tree), repeated |-> TRUE]
                ELSE NoPrevious
    /\ result' = NoResult

\* for data in jsondata: the loop takes the next element.
ForEach(data) ==
    /\ pc = "for"
    /\ Len(jsondata) < MaxRecords
    /\ again.repeated =>
         /\ Len(jsondata) < Len(again.data)
         /\ data = again.data[Len(jsondata) + 1]
    /\ jsondata' = Append(jsondata, data)
    /\ pc' = "create_path"
    /\ UNCHANGED <<nodes, tree, resolver, outcome, calls, again, result>>

\* for data in jsondata: the collection is exhausted and rebuild_tree returns.
ForEnd ==
    /\ pc = "for"
    /\ again.repeated => Len(jsondata) >= Len(again.data)
    /\ pc' = "idle"
    /\ outcome' = "returned"
    /\ UNCHANGED <<nodes, tree, resolver, jsondata, calls, again, result>>

\* The element the loop body is working on.
Current == jsondata[Len(jsondata)]

\* self._create_path(data["entry_path"]); an exception ends rebuild_tree.
CreatePath ==
    /\ pc = "create_path"
    /\ LET r == IF Missing(Current, {"entry_path"}) THEN Done("KeyError", nodes)
                ELSE create_path(nodes, tree, resolver, Current.entry_path)
       IN  /\ nodes' = r.nodes
           /\ pc' = IF r.exc = "" THEN "create_update_node" ELSE "idle"
           /\ outcome' = IF r.exc = "" THEN outcome ELSE r.exc
    /\ UNCHANGED <<tree, resolver, jsondata, calls, again, result>>

\* self._create_update_node(data); an exception ends rebuild_tree.
CreateUpdateNode ==
    /\ pc = "create_update_node"
    /\ LET r == create_update_node(nodes, tree, resolver, Current)
       IN  /\ nodes' = r.nodes
           /\ pc' = IF r.exc = "" THEN "for" ELSE "idle"
           /\ outcome' = IF r.exc = "" THEN outcome ELSE r.exc
    /\ UNCHANGED <<tree, resolver, jsondata, calls, again, result>>

\* The caller calls get_node_by_path(path) between rebuilds.
GetNodeByPath(path) ==
    /\ pc = "idle"
    /\ LET r == get_node_by_path(nodes, tree, resolver, path)
       IN  result' = [path |-> path, exc |-> r.exc, val |-> r.val]
    /\ UNCHANGED <<nodes, tree, resolver, pc, jsondata, outcome, calls, again>>

Next ==
    \/ \E repeat \in BOOLEAN : RebuildTree(repeat)
    \/ \E data \in Records : ForEach(data)
    \/ ForEnd
    \/ CreatePath
    \/ CreateUpdateNode
    \/ \E path \in LookupPaths : GetNodeByPath(path)

Spec == Init /\ [][Next]_vars

(***************************************************************************)
(* Vocabulary of the properties.                                           *)
(***************************************************************************)
\* No rebuild_tree call is running and the last one returned normally.
Returned == pc = "idle" /\ outcome = "returned"

\* No rebuild_tree call is running and the last one raised.
Raised == pc = "idle" /\ outcome \notin {"none", "returned"}

\* get_node_by_path(path) in the current state.
Lookup(path) == get_node_by_path(nodes, tree, resolver, path)

Attached == {k \in 1..Len(nodes) : InTree(nodes, tree, k)}

Segments(path) == Split(path, "/")

\* The paths of the folders between the root and the parent of path, parent
\* included: Document/A and Document/A/B for Document/A/B/d.
RECURSIVE JoinSegments(_)
JoinSegments(segs) ==
    IF Len(segs) = 1 THEN segs[1]
    ELSE FormatJoin(JoinSegments(SubSeq(segs, 1, Len(segs) - 1)), segs[Len(segs)])

AncestorPaths(path) ==
    {JoinSegments(SubSeq(Segments(path), 1, n)) : n \in 2..(Len(Segments(path)) - 1)}

IsTreeRecord(data) == data.entry_type \in {Str(<<"folder">>), Str(<<"document">>)}

\* The collection C1 speaks of: distinct paths, all under Document, each
\* named by its last segment.
WellFormed(coll) ==
    /\ \A i, j \in 1..Len(coll) : i # j => coll[i].entry_path # coll[j].entry_path
    /\ \A i \in 1..Len(coll) :
         /\ Segments(coll[i].entry_path.v)[1] = <<"Document">>
         /\ coll[i].entry_name =
              Str(Segments(coll[i].entry_path.v)[Len(Segments(coll[i].entry_path.v))])

HasRecord(coll, path) == \E i \in 1..Len(coll) : coll[i].entry_path = Str(path)

\* The attributes a placeholder folder leaves absent, its name aside.
PlaceholderAttrs ==
    {"entry_type", "entry_id", "created_date", "is_new", "document_source",
     "parent_folder_id"}

IsPlaceholder(obj) ==
    /\ obj.class = "DPFolderNode"
    /\ \A a \in PlaceholderAttrs : GetAttr(obj, a) = None

\* A date or a number of the dict is present and does not parse.
Malformed(data) ==
    \/ \E a \in {"created_date", "modified_date"} :
         a \in DOMAIN data /\ todatetime(data[a]).exc # ""
    \/ \E a \in {"current_page", "file_size", "total_page"} :
         a \in DOMAIN data /\ data[a] # None /\ IntOf(data[a]).exc # ""

(***************************************************************************)
(* C1.  After rebuild_tree returns on a collection with pairwise distinct  *)
(* paths under Document, each record named by its last segment, every      *)
(* folder or document record resolves by its path to a node carrying its   *)
(* entry_id, attached under the node at its parent path.                   *)
(***************************************************************************)
C1_RecordsResolve ==
    (Returned /\ WellFormed(jsondata)) =>
        \A i \in 1..Len(jsondata) :
            IsTreeRecord(jsondata[i]) =>
                LET path == jsondata[i].entry_path.v
                    got  == Lookup(path)
                    par  == Lookup(RSplitFirst(path, "/"))
                IN  /\ got.exc = "" /\ got.val # 0
                    /\ nodes[got.val].entry_id = jsondata[i].entry_id
                    /\ par.exc = "" /\ par.val # 0
                    /\ nodes[got.val].parent = par.val

(***************************************************************************)
(* C2.  After rebuild_tree returns, every intermediate folder path of a    *)
(* record that has no record of its own resolves to a placeholder folder   *)
(* with that path, its optional attributes absent, attached under the node *)
(* of the preceding path.                                                  *)
(***************************************************************************)
C2_PlaceholdersResolve ==
    (Returned /\ WellFormed(jsondata)) =>
        \A i \in 1..Len(jsondata) :
            \A q \in AncestorPaths(jsondata[i].entry_path.v) :
                ~HasRecord(jsondata, q) =>
                    LET got == Lookup(q)
                        par == Lookup(RSplitFirst(q, "/"))
                    IN  /\ got.exc = "" /\ got.val # 0
                        /\ nodes[got.val].entry_path = Str(q)
                        /\ IsPlaceholder(nodes[got.val])
                        /\ par.exc = "" /\ nodes[got.val].parent = par.val

(***************************************************************************)
(* C3.  When _create_update_node handles a folder record whose path holds  *)
(* a placeholder of the tree, it constructs no node: the placeholder keeps *)
(* its parent and its children, takes the record's values, and is what     *)
(* get_node_by_path of the path gives afterwards.                          *)
(***************************************************************************)
C3_PlaceholderUpdatedInPlace ==
    [][\A k \in Attached :
          ( /\ pc = "create_update_node"
            /\ pc' = "for"
            /\ Current.entry_type = Str(<<"folder">>)
            /\ IsPlaceholder(nodes[k])
            /\ nodes[k].entry_path = Current.entry_path )
          => /\ Len(nodes') = Len(nodes)
             /\ nodes'[k].parent = nodes[k].parent
             /\ Children(nodes', k) = Children(nodes, k)
             /\ nodes'[k].entry_id = Current.entry_id
             /\ get_node_by_path(nodes', tree', resolver', Current.entry_path.v) = Found(k)
      ]_vars

(***************************************************************************)
(* C4.  In every state, during and after a rebuild, no two nodes of the    *)
(* tree have the same entry_path.                                          *)
(***************************************************************************)
C4_PathsUnique ==
    \A j, k \in Attached : j # k => nodes[j].entry_path # nodes[k].entry_path

(***************************************************************************)
(* C5.  After rebuild_tree returns, the path of every node of the tree but *)
(* the root is its parent's path, "/", and its own name.                   *)
(***************************************************************************)
C5_PathIsParentPathAndName ==
    Returned =>
        \A k \in Attached \ {tree} :
            /\ nodes[k].parent # 0
            /\ nodes[k].entry_name.t = "str"
            /\ nodes[k].entry_path =
                 Str(FormatJoin(nodes[nodes[k].parent].entry_path.v, nodes[k].entry_name.v))

(***************************************************************************)
(* C6.  A second rebuild_tree with the collection of the call before it    *)
(* ends as that call did and leaves the same tree: the same nodes by path, *)
(* class, attribute values and parent path.                                *)
(***************************************************************************)
C6_RebuildIdempotent ==
    (pc = "idle" /\ again.repeated) =>
        /\ jsondata = again.data
        /\ outcome = again.outcome
        /\ TreeView(nodes, tree) = again.view

\* A repeated rebuild has returned on a collection that built folders,
\* a placeholder and documents.
C6_Witness ==
    /\ Returned
    /\ again.repeated
    /\ Len(jsondata) >= 2
    /\ \E k \in Attached : nodes[k].class = "DPDocumentNode"
    /\ \E k \in Attached : IsPlaceholder(nodes[k])

(***************************************************************************)
(* C7.  On a built tree, get_node_by_path of a path that no node of the    *)
(* tree has gives None and raises nothing.                                 *)
(***************************************************************************)
C7_MissingPathGivesNone ==
    ( /\ pc = "idle"
      /\ calls > 0
      /\ result # NoResult
      /\ \A k \in Attached : nodes[k].entry_path # Str(result.path) )
    => (result.exc = "" /\ result.val = 0)

(***************************************************************************)
(* C8.  Before any rebuild_tree, get_node_by_path raises nothing.          *)
(***************************************************************************)
C8_LookupBeforeRebuild ==
    (calls = 0 /\ result # NoResult) => result.exc = ""

(***************************************************************************)
(* C9.  A rebuild_tree that raises leaves no partial tree: after the first *)
(* call on an instance raised, the tree holds no node built from the       *)
(* records handled before the failure.                                     *)
(***************************************************************************)
C9_FailedRebuildLeavesNoPartialTree ==
    (Raised /\ calls = 1) =>
        \A k \in Attached :
            \A i \in 1..Len(jsondata) :
                GetAttr(nodes[k], "entry_id") # jsondata[i].entry_id

(***************************************************************************)
(* C10.  A record with a malformed date or number makes rebuild_tree       *)
(* raise, and the tree then holds no node carrying that record's entry_id. *)
(***************************************************************************)
C10_MalformedRecordRejected ==
    /\ (pc = "for" /\ jsondata # <<>>) => ~Malformed(Current)
    /\ (Raised /\ Malformed(Current)) =>
          \A k \in Attached : GetAttr(nodes[k], "entry_id") # Current.entry_id

(***************************************************************************)
(* Records that leave the shape of the device's listing: paths outside     *)
(* Document, an unknown entry_type, a path below a document.               *)
(***************************************************************************)
PathX == <<"X">>

PathXd == <<"X", "/", "d">>

PathAde == <<"Document", "/", "A", "/", "d", "/", "e">>

FolderX == FolderRecord(PathX, "X", "fX1", GoodDate, "root")

FolderEmptyPath == [FolderRecord(<<>>, "", "fE", GoodDate, "root") EXCEPT !.entry_name = Str(<<>>)]

DocumentXd == DocumentRecord(PathXd, "d", "dX", GoodDate, Str(<<"1">>), "fX1")

ImageA == [FolderRecord(PathA, "A", "iA", GoodDate, "root") EXCEPT !.entry_type = Str(<<"image">>)]

DocumentAde == DocumentRecord(PathAde, "e", "d5", GoodDate, Str(<<"2">>), "d2")

PathRecords ==
    {FolderA, DocumentAd, ImageA, DocumentAde, FolderXAd, FolderX, FolderEmptyPath, DocumentXd}

NextPaths ==
    \/ \E repeat \in BOOLEAN : RebuildTree(repeat)
    \/ \E data \in PathRecords : ForEach(data)
    \/ ForEnd
    \/ CreatePath
    \/ CreateUpdateNode
    \/ \E path \in LookupPaths : GetNodeByPath(path)

SpecPaths == Init /\ [][NextPaths]_vars

\* The path starts with the segment Document.
Rooted(path) == Segments(path)[1] = <<"Document">>

(***************************************************************************)
(* C11.  A record whose entry_path does not start with the segment         *)
(* Document ends rebuild_tree with an error: the loop never goes on after  *)
(* it, the call raises ResolverError, and no node, attached or not, is     *)
(* constructed for its path or for an ancestor path of it.                 *)
(***************************************************************************)
C11_UnrootedRecordFails ==
    /\ (pc = "for" /\ jsondata # <<>>) => Rooted(Current.entry_path.v)
    /\ (pc = "idle" /\ jsondata # <<>> /\ ~Rooted(Current.entry_path.v)) =>
          outcome = "ResolverError"
    /\ \A k \in 1..Len(nodes) : Rooted(nodes[k].entry_path.v)

\* rebuild_tree has raised on a record of a single segment other than Document,
\* after building nodes for an earlier record.
C11_Witness ==
    /\ Raised
    /\ Len(jsondata) >= 2
    /\ Current.entry_path = Str(PathX)
    /\ Len(nodes) >= 2

\* _create_path has run for the i-th record of the call.
PathCreated(i) ==
    \/ i < Len(jsondata)
    \/ i = Len(jsondata) /\ (pc \in {"create_update_node", "for"} \/ Returned)

HasFolderRecord(coll, path) ==
    \E i \in 1..Len(coll) :
        coll[i].entry_path = Str(path) /\ coll[i].entry_type = Str(<<"folder">>)

(***************************************************************************)
(* C12.  A record under Document whose entry_type is neither folder nor    *)
(* document is passed over: rebuild_tree does not raise on it, no node     *)
(* carries its entry_id, and once a later record has that path as an       *)
(* ancestor (and no folder record names it) the tree has a node with that  *)
(* path and every such node is a placeholder folder.                       *)
(***************************************************************************)
C12_UnknownTypeIgnored ==
    \A i \in 1..Len(jsondata) :
        (~IsTreeRecord(jsondata[i]) /\ Rooted(jsondata[i].entry_path.v)) =>
            /\ (i = Len(jsondata) /\ pc = "idle") => outcome = "returned"
            /\ \A k \in 1..Len(nodes) : GetAttr(nodes[k], "entry_id") # jsondata[i].entry_id
            /\ \A j \in (i + 1)..Len(jsondata) :
                 ( /\ jsondata[i].entry_path.v \in AncestorPaths(jsondata[j].entry_path.v)
                   /\ PathCreated(j)
                   /\ ~HasFolderRecord(jsondata, jsondata[i].entry_path.v) )
                 => /\ \E k \in Attached : nodes[k].entry_path = jsondata[i].entry_path
                    /\ \A k \in Attached :
                         nodes[k].entry_path = jsondata[i].entry_path => IsPlaceholder(nodes[k])

\* rebuild_tree has returned on a collection with a record of unknown type at
\* Document/A and then a document below Document/A.
C12_Witness ==
    /\ Returned
    /\ Len(jsondata) = 2
    /\ jsondata[1] = ImageA
    /\ jsondata[2] = DocumentAd
    /\ \E k \in Attached : nodes[k].entry_path = Str(PathA) /\ IsPlaceholder(nodes[k])

(***************************************************************************)
(* Records for the attribute conversions: the root's own record, as the    *)
(* device lists it and with a parent_folder_id key, a folder whose is_new  *)
(* is None, documents with numbers present, None and with a key missing.   *)
(***************************************************************************)
\* The dict without one of its keys.
Without(data, key) == [k \in DOMAIN data \ {key} |-> data[k]]

RootDate == Date(<<"2","0","1","7">>, <<"1","2">>, <<"1","2">>, <<"1","3">>, <<"5","3">>, <<"5","0">>)

RootRecordWithParent == [FolderRecord(PathDocument, "Document", "root", RootDate, "") EXCEPT !.parent_folder_id = None]

RootRecord == Without(Without(RootRecordWithParent, "parent_folder_id"), "document_source")

FolderAUnknownNew == [FolderRecord(PathA, "A", "fA3", GoodDate, "root") EXCEPT !.is_new = None]

DocumentAdNumbers == [DocumentRecord(PathAd, "d", "d6", GoodDate, Str(<<"1">>), "fA") EXCEPT !.file_size = Str(<<"0">>)]

DocumentAdNoNumbers == [DocumentRecord(PathAd, "d", "d7", GoodDate, None, "fA") EXCEPT !.file_size = None, !.total_page = None]

DocumentAdNoSizeKey == Without(DocumentRecord(PathAd, "d", "d8", GoodDate, Str(<<"1">>), "fA"), "file_size")

FieldRecords ==
    {RootRecord, RootRecordWithParent, FolderA, FolderAUnknownNew, DocumentAd,
     DocumentAdNumbers, DocumentAdNoNumbers, DocumentAdNoSizeKey}

NextFields ==
    \/ \E repeat \in BOOLEAN : RebuildTree(repeat)
    \/ \E data \in FieldRecords : ForEach(data)
    \/ ForEnd
    \/ CreatePath
    \/ CreateUpdateNode
    \/ \E path \in LookupPaths : GetNodeByPath(path)

SpecFields == Init /\ [][NextFields]_vars

(***************************************************************************)
(* C13.  After any rebuild_tree, exactly one node of the tree has no       *)
(* parent, and it has entry_id "root", entry_path "Document", entry_type   *)
(* "folder" and is_new False.                                              *)
(***************************************************************************)
C13_RootIdentity ==
    (pc = "idle" /\ calls > 0) =>
        /\ Cardinality({k \in Attached : nodes[k].parent = 0}) = 1
        /\ nodes[tree].parent = 0
        /\ nodes[tree].entry_id = Str(<<"root">>)
        /\ nodes[tree].entry_path = Str(<<"Document">>)
        /\ nodes[tree].entry_type = Str(<<"folder">>)
        /\ nodes[tree].is_new = PyBool(FALSE)

(***************************************************************************)
(* C14.  After rebuild_tree returns, no document node of the tree has a    *)
(* child.                                                                  *)
(***************************************************************************)
C14_DocumentsAreLeaves ==
    Returned =>
        \A k \in Attached : nodes[k].class = "DPDocumentNode" => Children(nodes, k) = {}

(***************************************************************************)
(* rebuild_tree(jsondata) as one computation, on an instance whose nodes   *)
(* and tree are ns and tr: the root and the resolver, then the loop body   *)
(* for each element in order, up to the first exception.                   *)
(***************************************************************************)
RECURSIVE RebuildLoop(_, _, _, _, _)

RebuildLoop(ns, tr, rs, coll, i) ==
    IF i > Len(coll) THEN [exc |-> "", nodes |-> ns, tree |-> tr]
    ELSE LET p == IF Missing(coll[i], {"entry_path"}) THEN Done("KeyError", ns)
                  ELSE create_path(ns, tr, rs, coll[i].entry_path)
         IN  IF p.exc # "" THEN [exc |-> p.exc, nodes |-> p.nodes, tree |-> tr]
             ELSE LET u == create_update_node(p.nodes, tr, rs, coll[i])
                  IN  IF u.exc # "" THEN [exc |-> u.exc, nodes |-> u.nodes, tree |-> tr]
                      ELSE RebuildLoop(u.nodes, tr, rs, coll, i + 1)

rebuild_tree(ns, tr, coll) ==
    LET b == rebuild_tree_begin(ns, tr)
    IN  RebuildLoop(b.nodes, b.tree, b.resolver, coll, 1)

\* rebuild_tree(coll) on a RemoteTree just constructed.
Fresh(coll) == rebuild_tree(<<>>, 0, coll)

(***************************************************************************)
(* C15.  rebuild_tree replaces the tree: whatever was built before, when a *)
(* rebuild_tree call has ended the tree and the way the call ended are     *)
(* those of the same call on a fresh instance.                             *)
(***************************************************************************)
C15_RebuildReplaces ==
    (pc = "idle" /\ calls > 0) =>
        /\ TreeView(nodes, tree) = TreeView(Fresh(jsondata).nodes, Fresh(jsondata).tree)
        /\ outcome = IF Fresh(jsondata).exc = "" THEN "returned" ELSE Fresh(jsondata).exc

\* A second rebuild_tree, with a collection of its own, has returned a tree
\* that holds more than the root.
C15_Witness ==
    /\ Returned /\ calls = 2 /\ ~again.repeated
    /\ jsondata = <<FolderA, FolderAB>>
    /\ Cardinality(Attached) = 3

(***************************************************************************)
(* C16.  When the loop body has run for a document record, rebuild_tree    *)
(* has not failed on it and the record's node has, for each of             *)
(* current_page, file_size and total_page, the integer its numeric string  *)
(* denotes, and None where the record's value is None or the key is not    *)
(* there.                                                                  *)
(***************************************************************************)
NumberFields == {"current_page", "file_size", "total_page"}

Denoted(data, a) ==
    IF a \in DOMAIN data /\ data[a] # None THEN PyInt(DecimalValue(data[a].v, 0)) ELSE None

C16_NumbersConverted ==
    (jsondata # <<>> /\ pc \in {"for", "idle"} /\ Current.entry_type = Str(<<"document">>)) =>
        /\ outcome \in {"none", "returned"}
        /\ \E k \in 1..Len(nodes) :
              /\ nodes[k].class = "DPDocumentNode"
              /\ GetAttr(nodes[k], "entry_id") = Current.entry_id
              /\ \A a \in NumberFields :
                    a \in DOMAIN nodes[k] /\ nodes[k][a] = Denoted(Current, a)

(***************************************************************************)
(* C16, amended.  A document record that has the three keys gives its node *)
(* the integer each numeric string denotes and None for each None, and     *)
(* rebuild_tree does not fail on it; a document record that lacks one of   *)
(* the keys makes rebuild_tree fail with KeyError, and no node is made for *)
(* it.                                                                     *)
(***************************************************************************)
C16_NumbersConvertedOrKeyError ==
    (jsondata # <<>> /\ pc \in {"for", "idle"} /\ Current.entry_type = Str(<<"document">>)) =>
        IF NumberFields \subseteq DOMAIN Current
        THEN C16_NumbersConverted
        ELSE /\ outcome = "KeyError"
             /\ \A k \in 1..Len(nodes) : GetAttr(nodes[k], "entry_id") # Current.entry_id

\* A document with a file_size of 0 and a document with no numbers have been
\* built: the one has the integer 0, the other None.
C16_Witness ==
    /\ Returned /\ jsondata = <<FolderA, DocumentAdNumbers, DocumentAdNoNumbers>>
    /\ \E k \in 1..Len(nodes) :
          nodes[k].entry_id = DocumentAdNumbers.entry_id /\ nodes[k].file_size = PyInt(0)
    /\ \E k \in 1..Len(nodes) :
          nodes[k].entry_id = DocumentAdNoNumbers.entry_id /\ nodes[k].file_size = None

(***************************************************************************)
(* C17.  One run of _create_path or _create_update_node for a record       *)
(* changes nothing but this: _create_path adds folders without data at     *)
(* ancestor paths of the record that get_node_by_path does not find,       *)
(* _create_update_node adds a node at the record's path or updates the     *)
(* attributes of a node at the record's path.  Every other node keeps its  *)
(* parent and all its attributes, and gets no child: a new node has no     *)
(* parent or a parent whose path is the path above its own.                *)
(***************************************************************************)
PathAbove(path) ==
    IF Len(Segments(path)) < 2 THEN <<>>
    ELSE JoinSegments(SubSeq(Segments(path), 1, Len(Segments(path)) - 1))

C17_Frame ==
    [][(pc = "create_path" \/ pc = "create_update_node") =>
         /\ Len(nodes') >= Len(nodes)
         /\ \A k \in 1..Len(nodes) :
               \/ nodes'[k] = nodes[k]
               \/ /\ pc = "create_update_node"
                  /\ nodes[k].entry_path = Current.entry_path
                  /\ nodes'[k].entry_path = nodes[k].entry_path
                  /\ nodes'[k].parent = nodes[k].parent
                  /\ nodes'[k].class = nodes[k].class
         /\ \A k \in (Len(nodes) + 1)..Len(nodes') :
               /\ pc = "create_path" =>
                     /\ nodes'[k].entry_path.v \in AncestorPaths(Current.entry_path.v)
                     /\ Lookup(nodes'[k].entry_path.v) = Found(0)
                     /\ IsPlaceholder(nodes'[k])
               /\ pc = "create_update_node" => nodes'[k].entry_path = Current.entry_path
               /\ \/ nodes'[k].parent = 0
                  \/ nodes'[nodes'[k].parent].entry_path = Str(PathAbove(nodes'[k].entry_path.v))
    ]_vars

\* A document under Document/A/B has been added to a tree that holds a folder
\* Document/A with its own record and a document in it.
C17_Witness ==
    /\ pc = "for" /\ jsondata = <<FolderA, DocumentAd, DocumentABd>>
    /\ \E k \in Attached : nodes[k].entry_id = DocumentAd.entry_id
    /\ \E k \in 1..Len(nodes) : nodes[k].entry_id = DocumentABd.entry_id

(***************************************************************************)
(* C18.  After rebuild_tree returns on a collection with pairwise distinct *)
(* paths, rebuild_tree on any reordering of the collection returns too and *)
(* gives the same tree: the same nodes by path, class, attributes and      *)
(* parent path.                                                            *)
(***************************************************************************)
Reorderings(coll) ==
    LET n == Len(coll)
    IN  {[i \in 1..n |-> coll[f[i]]] :
            f \in {g \in [1..n -> 1..n] : \A i, j \in 1..n : i # j => g[i] # g[j]}}

C18_OrderIndependent ==
    (Returned /\ WellFormed(jsondata)) =>
        \A other \in Reorderings(jsondata) :
            /\ Fresh(other).exc = ""
            /\ TreeView(Fresh(other).nodes, Fresh(other).tree) = TreeView(nodes, tree)

(***************************************************************************)
(* C19.  When _create_update_node has handled a folder record, the node of *)
(* the tree at the record's path has the entry_name, entry_type, entry_id, *)
(* created_date, is_new, document_source and parent_folder_id that a       *)
(* freshly constructed DPFolderNode gets from the record, whether the node *)
(* was constructed or updated in place.                                    *)
(***************************************************************************)
FreshFolder(data) ==
    DPFolderNodeInit(0, data.entry_path, data.entry_name, data.entry_type, data.entry_id,
                     data.created_date, data.is_new, GetAttr(data, "document_source"),
                     data.parent_folder_id).obj

C19_SameFieldsFreshOrUpdated ==
    ( /\ jsondata # <<>>
      /\ pc = "for"
      /\ Current.entry_type = Str(<<"folder">>)
      /\ FolderKeys \subseteq DOMAIN Current )
    => \A k \in Attached :
          (nodes[k].entry_path = Current.entry_path /\ nodes[k].entry_id = Current.entry_id) =>
              \A i \in 1..Len(UpdatedAttrs) :
                  GetAttr(nodes[k], UpdatedAttrs[i]) = GetAttr(FreshFolder(Current), UpdatedAttrs[i])

=============================================================================
